---- MODULE Spec2Model ----
(***************************************************************************)
(* The book catalog of hapi-bookshelf-api: the five request handlers of    *)
(* src/controller/books-controller.js over the process-wide `books` array. *)
(*                                                                         *)
(* Spec     : one request is handled per step (a handler runs start to     *)
(*            finish with no other handler in between).                    *)
(* SpecConc : several requests in flight; a handler runs statement by      *)
(*            statement and gives up the thread at its `await`s.           *)
(***************************************************************************)
EXTENDS Integers, Sequences, FiniteSets, TLC

----
\* JavaScript values.  Every payload field, query parameter and record field
\* is one of these; a property that is absent from a JSON payload
\* destructures to `undefined`.

Undef == [t |-> "undefined", n |-> 0, s |-> <<>>]

Num(k) == [t |-> "number", n |-> k, s |-> <<>>]

Str(cs) == [t |-> "string", n |-> 0, s |-> cs]

Bool(b) == [t |-> "boolean", n |-> IF b THEN 1 ELSE 0, s |-> <<>>]

\* a === b on primitives: same type and same value.
StrictEq(a, b) == a = b

NaN == [nan |-> TRUE, v |-> 0]

Digits == {"0", "1", "2", "3", "4", "5", "6", "7", "8", "9"}

DigitVal(c) ==
  CASE c = "0" -> 0 [] c = "1" -> 1 [] c = "2" -> 2 [] c = "3" -> 3
    [] c = "4" -> 4 [] c = "5" -> 5 [] c = "6" -> 6 [] c = "7" -> 7
    [] c = "8" -> 8 [] c = "9" -> 9

RECURSIVE DecimalValue(_)
DecimalValue(cs) ==
  IF cs = <<>> THEN 0
  ELSE 10 * DecimalValue(SubSeq(cs, 1, Len(cs) - 1)) + DigitVal(cs[Len(cs)])

\* ToNumber: undefined is NaN, a boolean is 0 or 1, the empty string is 0, a
\* string of decimal digits is its value and any other string is NaN.
ToNumber(v) ==
  CASE v.t = "number" -> [nan |-> FALSE, v |-> v.n]
    [] v.t = "boolean" -> [nan |-> FALSE, v |-> v.n]
    [] v.t = "string" ->
         IF \A i \in DOMAIN v.s : v.s[i] \in Digits
         THEN [nan |-> FALSE, v |-> DecimalValue(v.s)]
         ELSE NaN
    [] OTHER -> NaN

\* a < b for operands that are not both strings: both are converted with
\* ToNumber and a comparison with NaN is false.
JSLess(a, b) ==
  LET x == ToNumber(a)
      y == ToNumber(b)
  IN  ~x.nan /\ ~y.nan /\ x.v < y.v

\* !!Number(v): false for NaN and for 0.
NumberTruthy(v) ==
  LET x == ToNumber(v)
  IN  ~x.nan /\ x.v # 0

Lower(c) ==
  CASE c = "A" -> "a" [] c = "B" -> "b" [] OTHER -> c

toLowerCase(cs) == [i \in DOMAIN cs |-> Lower(cs[i])]

\* String.prototype.includes
includes(cs, sub) ==
  \E i \in 0..(Len(cs) - Len(sub)) : SubSeq(cs, i + 1, i + Len(sub)) = sub

----
\* Bounds of the model.

\* Steps of a run of Spec: requests handled and ticks of the clock.
MaxSteps == 4

\* Requests of a run of SpecConc.
MaxRequests == 2

----
\* Inputs.

\* Strings that serve as ids.
Ids == {Str(<<"p">>), Str(<<"q">>), Str(<<"r">>)}

\* nanoid(16): a random 16-character string.  The generator is taken by its
\* contract, as a source of fresh values: it returns a string it has not
\* returned before (`used`).  A repeat is not impossible, only improbable
\* (64^16 strings); the handler itself never compares the new id with the
\* ids in use.
nanoid(used) == Ids \ used

\* The {id} path parameter of a request.
IdParams == Ids

Payload(name, publisher, pageCount, readPage, reading, rest) ==
  [name |-> name, year |-> rest, author |-> rest, summary |-> rest,
   publisher |-> publisher, pageCount |-> pageCount, readPage |-> readPage,
   reading |-> reading]

\* Request payloads: JSON objects whose properties may be absent.
\*   a full payload, all pages read;  a sparse one, pages left to read;
\*   readPage above pageCount;  no name, with and without readPage above
\*   pageCount;  a name that is a number;  no pageCount.
Payloads ==
  { Payload(Str(<<"A", "b">>), Str(<<"x">>), Num(1), Num(1), Bool(TRUE), Num(1)),
    Payload(Str(<<"b", "a">>), Undef, Num(1), Num(0), Bool(FALSE), Undef),
    Payload(Str(<<"A", "b">>), Str(<<"x">>), Num(0), Num(1), Bool(TRUE), Num(1)),
    Payload(Undef, Str(<<"x">>), Num(1), Num(1), Bool(FALSE), Num(1)),
    Payload(Undef, Undef, Num(0), Num(1), Bool(TRUE), Undef),
    Payload(Num(7), Str(<<"x">>), Num(1), Num(0), Bool(TRUE), Undef),
    Payload(Str(<<"b", "a">>), Str(<<"y">>), Undef, Num(1), Undef, Undef) }

NoPayload == Payload(Undef, Undef, Undef, Undef, Undef, Undef)

Query(name, reading, finished) ==
  [name |-> name, reading |-> reading, finished |-> finished]

\* Query strings of GET /books: each parameter is absent or a string.
Queries ==
  { Query(Undef, Undef, Undef),
    Query(Str(<<"a">>), Undef, Undef),
    Query(Str(<<"B", "A">>), Undef, Undef),
    Query(Undef, Str(<<"1">>), Undef),
    Query(Undef, Str(<<"0">>), Undef),
    Query(Undef, Str(<<"t">>), Undef),
    Query(Undef, Undef, Str(<<"1">>)),
    Query(Undef, Undef, Str(<<"0">>)),
    Query(Str(<<"a">>), Str(<<"1">>), Str(<<"1">>)),
    Query(Str(<<"B">>), Str(<<"0">>), Str(<<"0">>)),
    Query(Undef, Str(<<"1">>), Str(<<"0">>)),
    Query(Str(<<"x">>), Undef, Str(<<"1">>)) }

NoQuery == Query(Undef, Undef, Undef)

----
\* The handlers, as functions of the collection and the request.

fail == "fail"

success == "success"

AddNoName == "Gagal menambahkan buku. Mohon isi nama buku"

AddPageCount == "Gagal menambahkan buku. readPage tidak boleh lebih besar dari pageCount"

AddSuccess == "Buku berhasil ditambahkan"

AddFailed == "Buku gagal ditambahkan"

GetNotFound == "Buku tidak ditemukan"

EditNoName == "Gagal memperbarui buku. Mohon isi nama buku"

EditPageCount == "Gagal memperbarui buku. readPage tidak boleh lebih besar dari pageCount"

EditSuccess == "Buku berhasil diperbarui"

EditNotFound == "Gagal memperbarui buku. Id tidak ditemukan"

DeleteSuccess == "Buku berhasil dihapus"

DeleteNotFound == "Buku gagal dihapus. Id tidak ditemukan"

\* err.message of the TypeError of calling toLowerCase on a non-string.
NotAFunction == "book.name.toLowerCase is not a function"

\* What a handler leaves behind: the collection and the response.
Reply(bs, code, status, message) ==
  [books |-> bs, code |-> code, status |-> status, message |-> message,
   bookId |-> Undef, list |-> <<>>, book |-> <<>>]

\* Array.prototype.findIndex on book.id === id: the 0-based index of the
\* first match, -1 without one.
findIndex(bs, id) ==
  IF \E i \in DOMAIN bs : StrictEq(bs[i].id, id)
  THEN (CHOOSE i \in DOMAIN bs :
          /\ StrictEq(bs[i].id, id)
          /\ \A j \in 1..(i - 1) : ~StrictEq(bs[j].id, id)) - 1
  ELSE -1

\* books.splice(index, 1)
splice(bs, index) ==
  [i \in 1..(Len(bs) - 1) |-> IF i <= index THEN bs[i] ELSE bs[i + 1]]

\* Variant of nameMissing: the test is for the empty string.
nameMissing_emptyString(name) == StrictEq(name, Str(<<>>))

\* name === undefined
nameMissing(name) == StrictEq(name, Undef)

\* Variant of pageCountExceeded: the operands are swapped.
pageCountExceeded_swapped(pageCount, readPage) == JSLess(readPage, pageCount)

\* pageCount < readPage
pageCountExceeded(pageCount, readPage) == JSLess(pageCount, readPage)

\* finished = (pageCount === readPage)
isFinished(pageCount, readPage) == Bool(StrictEq(pageCount, readPage))

\* Variant of newBook: the id is one string computed when the module loads,
\* not one per request.
newBook_hoistedId(p, id, t) ==
  [id |-> Str(<<"p">>), name |-> p.name, year |-> p.year, author |-> p.author,
   summary |-> p.summary, publisher |-> p.publisher,
   pageCount |-> p.pageCount, readPage |-> p.readPage,
   finished |-> Bool(StrictEq(p.pageCount, p.readPage)),
   reading |-> p.reading, insertedAt |-> Num(t), updatedAt |-> Num(t)]

newBook(p, id, t) ==
  [id |-> id, name |-> p.name, year |-> p.year, author |-> p.author,
   summary |-> p.summary, publisher |-> p.publisher,
   pageCount |-> p.pageCount, readPage |-> p.readPage,
   finished |-> isFinished(p.pageCount, p.readPage),
   reading |-> p.reading, insertedAt |-> Num(t), updatedAt |-> Num(t)]

addBookController(bs, p, id, t) ==
  IF nameMissing(p.name)
  THEN Reply(bs, 400, fail, AddNoName)
  ELSE IF pageCountExceeded(p.pageCount, p.readPage)
  THEN Reply(bs, 400, fail, AddPageCount)
  ELSE LET pushed == Append(bs, newBook(p, id, t))
           isSuccess == Len(SelectSeq(pushed, LAMBDA b : StrictEq(b.id, id))) > 0
       IN  IF isSuccess
           THEN [Reply(pushed, 201, success, AddSuccess) EXCEPT !.bookId = id]
           ELSE Reply(pushed, 500, fail, AddFailed)

Summary(book) == [id |-> book.id, name |-> book.name, publisher |-> book.publisher]

filterByName(bs, name) ==
  IF name # Undef
  THEN SelectSeq(bs, LAMBDA b : includes(toLowerCase(b.name.s), toLowerCase(name.s)))
  ELSE bs

filterByReading(bs, reading) ==
  IF reading # Undef
  THEN SelectSeq(bs, LAMBDA b : StrictEq(b.reading, Bool(NumberTruthy(reading))))
  ELSE bs

filterByFinished(bs, finished) ==
  IF finished # Undef
  THEN SelectSeq(bs, LAMBDA b : StrictEq(b.finished, Bool(NumberTruthy(finished))))
  ELSE bs

\* book.name.toLowerCase() is a TypeError unless book.name is a string; the
\* filter callback runs on every record, so one such record is enough.
nameFilterThrows(bs, name) ==
  name # Undef /\ \E i \in DOMAIN bs : bs[i].name.t # "string"

getAllBooksController(bs, q) ==
  IF nameFilterThrows(bs, q.name)
  THEN Reply(bs, 500, fail, NotAFunction)
  ELSE LET queriedBooks ==
             filterByFinished(filterByReading(filterByName(bs, q.name), q.reading),
                              q.finished)
       IN  [Reply(bs, 200, success, "") EXCEPT
              !.list = [i \in DOMAIN queriedBooks |-> Summary(queriedBooks[i])]]

getBookByIdController(bs, id) ==
  LET found == SelectSeq(bs, LAMBDA b : StrictEq(b.id, id))
  IN  IF found # <<>>
      THEN [Reply(bs, 200, success, "") EXCEPT !.book = <<found[1]>>]
      ELSE Reply(bs, 404, fail, GetNotFound)

\* Variant of editedBook: finished is left as it was.
editedBook_staleFinished(old, p, t) ==
  [old EXCEPT !.name = p.name, !.year = p.year, !.author = p.author,
              !.summary = p.summary, !.publisher = p.publisher,
              !.pageCount = p.pageCount, !.readPage = p.readPage,
              !.reading = p.reading, !.updatedAt = Num(t)]

\* Variant of editedBook: a property absent from the payload keeps its old
\* value (a merge).
editedBook_merge(old, p, t) ==
  LET pick(new, kept) == IF new = Undef THEN kept ELSE new
  IN  [old EXCEPT !.name = p.name, !.year = pick(p.year, old.year),
                  !.author = pick(p.author, old.author),
                  !.summary = pick(p.summary, old.summary),
                  !.publisher = pick(p.publisher, old.publisher),
                  !.pageCount = p.pageCount, !.readPage = p.readPage,
                  !.finished = Bool(StrictEq(p.pageCount, p.readPage)),
                  !.reading = p.reading, !.updatedAt = Num(t)]

\* {...books[index], name, ..., updatedAt}: the old record's properties, the
\* listed ones overwritten.
editedBook(old, p, t) ==
  [old EXCEPT !.name = p.name, !.year = p.year, !.author = p.author,
              !.summary = p.summary, !.publisher = p.publisher,
              !.pageCount = p.pageCount, !.readPage = p.readPage,
              !.finished = isFinished(p.pageCount, p.readPage),
              !.reading = p.reading, !.updatedAt = Num(t)]

\* Variant of editBookByIdController: the payload is validated before the
\* record is looked up.
editBookByIdController_validatesFirst(bs, id, p, t) ==
  LET index == findIndex(bs, id)
  IN  IF StrictEq(p.name, Undef)
      THEN Reply(bs, 400, fail, EditNoName)
      ELSE IF JSLess(p.pageCount, p.readPage)
      THEN Reply(bs, 400, fail, EditPageCount)
      ELSE IF index # -1
      THEN Reply([bs EXCEPT ![index + 1] = editedBook(bs[index + 1], p, t)],
                 200, success, EditSuccess)
      ELSE Reply(bs, 404, fail, EditNotFound)

editBookByIdController(bs, id, p, t) ==
  LET index == findIndex(bs, id)
  IN  IF index # -1
      THEN IF nameMissing(p.name)
           THEN Reply(bs, 400, fail, EditNoName)
           ELSE IF pageCountExceeded(p.pageCount, p.readPage)
           THEN Reply(bs, 400, fail, EditPageCount)
           ELSE Reply([bs EXCEPT ![index + 1] = editedBook(bs[index + 1], p, t)],
                      200, success, EditSuccess)
      ELSE Reply(bs, 404, fail, EditNotFound)

deleteBookByIdController(bs, id) ==
  LET index == findIndex(bs, id)
  IN  IF index # -1
      THEN Reply(splice(bs, index), 200, success, DeleteSuccess)
      ELSE Reply(bs, 404, fail, DeleteNotFound)

----
\* The service, one request per step.

VARIABLES
  books,     \* the collection, in insertion order
  now,       \* the clock's reading
  assigned,  \* history: the ids nanoid has handed out
  steps,     \* Spec: steps taken so far
  last,      \* Spec: the request this step handled and its response
  frames,    \* SpecConc: the handler invocations, in order of arrival
  running,   \* SpecConc: the invocation that holds the thread, 0 for none
  serial     \* SpecConc: the same requests handled one at a time

vars == <<books, now, assigned, steps, last, frames, running, serial>>

\* SpecConc's variables, which Spec leaves alone.
concVars == <<frames, running, serial>>

Handled(op, id, p, q, r) ==
  [op |-> op, id |-> id, payload |-> p, query |-> q,
   code |-> r.code, status |-> r.status, message |-> r.message,
   bookId |-> r.bookId, list |-> r.list, book |-> r.book]

\* A step that handles no request.
Idle == Handled("none", Undef, NoPayload, NoQuery, Reply(<<>>, 0, "", ""))

\* The collection starts empty.
Init ==
  /\ books = <<>>
  /\ now = 0
  /\ assigned = {}
  /\ steps = 0
  /\ last = Idle
  /\ frames = <<>>
  /\ running = 0
  /\ serial = [books |-> <<>>, order |-> <<>>]

Step ==
  /\ steps < MaxSteps
  /\ steps' = steps + 1
  /\ UNCHANGED concVars

\* Time passes between requests.
Tick ==
  /\ Step
  /\ now' = now + 1
  /\ last' = Idle
  /\ UNCHANGED <<books, assigned>>

\* POST /books
Create ==
  \E p \in Payloads :
    \* nanoid is called once the payload has passed validation
    \E id \in IF nameMissing(p.name) \/ pageCountExceeded(p.pageCount, p.readPage)
              THEN {Undef}
              ELSE nanoid(assigned) :
    LET r == addBookController(books, p, id, now)
    IN  /\ Step
        /\ books' = r.books
        /\ assigned' = IF r.code # 400 THEN assigned \cup {id} ELSE assigned
        /\ last' = Handled("create", Undef, p, NoQuery, r)
        /\ UNCHANGED now

\* GET /books
List ==
  \E q \in Queries :
    LET r == getAllBooksController(books, q)
    IN  /\ Step
        /\ books' = r.books
        /\ last' = Handled("list", Undef, NoPayload, q, r)
        /\ UNCHANGED <<now, assigned>>

\* GET /books/{id}
Get ==
  \E id \in IdParams :
    LET r == getBookByIdController(books, id)
    IN  /\ Step
        /\ books' = r.books
        /\ last' = Handled("get", id, NoPayload, NoQuery, r)
        /\ UNCHANGED <<now, assigned>>

\* PUT /books/{id}
Update ==
  \E id \in IdParams, p \in Payloads :
    LET r == editBookByIdController(books, id, p, now)
    IN  /\ Step
        /\ books' = r.books
        /\ last' = Handled("update", id, p, NoQuery, r)
        /\ UNCHANGED <<now, assigned>>

\* DELETE /books/{id}
Delete ==
  \E id \in IdParams :
    LET r == deleteBookByIdController(books, id)
    IN  /\ Step
        /\ books' = r.books
        /\ last' = Handled("delete", id, NoPayload, NoQuery, r)
        /\ UNCHANGED <<now, assigned>>

Next == Tick \/ Create \/ List \/ Get \/ Update \/ Delete

Spec == Init /\ [][Next]_vars

----
\* Properties of the service (specification Spec).

HasId(bs, id) == \E i \in DOMAIN bs : bs[i].id = id

\* The record a request for `id` addresses: the first with that id.
Position(bs, id) ==
  CHOOSE i \in DOMAIN bs : bs[i].id = id /\ \A j \in 1..(i - 1) : bs[j].id # id

\* readPage > pageCount, both numbers.
ReadPageAbove(p) ==
  /\ p.readPage.t = "number"
  /\ p.pageCount.t = "number"
  /\ p.readPage.n > p.pageCount.n

\* C1: in every reachable state every record's finished is the boolean
\* (readPage equals pageCount) of the readPage and pageCount it stores.
FinishedIsDerived ==
  \A i \in DOMAIN books :
    books[i].finished = Bool(books[i].readPage = books[i].pageCount)

\* C1 witness: an accepted update has run, and the collection holds a
\* finished and an unfinished record.
FinishedIsDerivedWitness ==
  /\ last.op = "update"
  /\ last.code = 200
  /\ \E i, j \in DOMAIN books :
       /\ books[i].finished = Bool(TRUE)
       /\ books[j].finished = Bool(FALSE)
       /\ books[j].id = last.id

\* C2 (as claimed): every record of the collection has numbers for readPage
\* and pageCount, with readPage <= pageCount.
ReadPageWithinPageCount ==
  \A i \in DOMAIN books :
    /\ books[i].readPage.t = "number"
    /\ books[i].pageCount.t = "number"
    /\ books[i].readPage.n <= books[i].pageCount.n

\* C3: a create whose payload has no name is answered 400 "fail" with the
\* missing-name message and leaves the collection as it was.
CreateWithoutNameRejected ==
  [][(last'.op = "create" /\ last'.payload.name = Undef)
       => /\ last'.code = 400
          /\ last'.status = "fail"
          /\ last'.message = AddNoName
          /\ books' = books]_vars

\* C3 witness: a create without a name and with readPage above pageCount was
\* rejected on a collection that holds records.
CreateWithoutNameWitness ==
  /\ last.op = "create"
  /\ last.payload.name = Undef
  /\ ReadPageAbove(last.payload)
  /\ last.code = 400
  /\ Len(books) > 0

\* C4 (as claimed): every create and every update with readPage above
\* pageCount is answered 400 with the page-count message and leaves the
\* collection as it was, whatever the rest of the payload and the id.
PageCountExceededAlways ==
  [][(last'.op \in {"create", "update"} /\ ReadPageAbove(last'.payload))
       => /\ last'.code = 400
          /\ last'.message \in {AddPageCount, EditPageCount}
          /\ books' = books]_vars

\* C4 (amended): a create or update with numbers readPage > pageCount fails
\* and leaves the collection as it was; it is answered 400 with the
\* page-count message when the payload has a name and, for an update, the id
\* matches a record.
PageCountExceededRejected ==
  [][(last'.op \in {"create", "update"} /\ ReadPageAbove(last'.payload))
       => /\ books' = books
          /\ last'.status = "fail"
          /\ (/\ last'.payload.name # Undef
              /\ last'.op = "update" => HasId(books, last'.id))
             => /\ last'.code = 400
                /\ last'.message =
                     IF last'.op = "create" THEN AddPageCount ELSE EditPageCount]_vars

\* C4 witness: an update of a stored record, with a name and readPage above
\* pageCount, was rejected.
PageCountExceededWitness ==
  /\ last.op = "update"
  /\ last.payload.name # Undef
  /\ ReadPageAbove(last.payload)
  /\ HasId(books, last.id)
  /\ last.code = 400

\* C5: no two records of the collection share an id, and an accepted create
\* never hands out an id that was handed out before.
IdsUniqueNeverReused ==
  [][/\ \A i, j \in DOMAIN books' : books'[i].id = books'[j].id => i = j
     /\ (last'.op = "create" /\ last'.code = 201)
          => /\ last'.bookId \notin assigned
             /\ ~HasId(books, last'.bookId)
             /\ HasId(books', last'.bookId)]_vars

\* C5 witness: after a delete, a create was accepted while an id handed out
\* earlier is no longer in the collection.
IdsUniqueWitness ==
  /\ last.op = "create"
  /\ last.code = 201
  /\ \E id \in assigned : ~HasId(books, id)
  /\ Len(books) > 1

\* C6: an update or a delete of an id that matches no record is answered
\* 404 with the not-found message, whatever the payload, and leaves the
\* collection as it was.
UnknownIdNotFound ==
  [][(last'.op \in {"update", "delete"} /\ ~HasId(books, last'.id))
       => /\ last'.code = 404
          /\ last'.status = "fail"
          /\ last'.message =
               IF last'.op = "update" THEN EditNotFound ELSE DeleteNotFound
          /\ books' = books]_vars

\* C6 witness: an update without a name, for an id that matches none of the
\* records of the collection, was answered 404.
UnknownIdWitness ==
  /\ last.op = "update"
  /\ last.payload.name = Undef
  /\ ~HasId(books, last.id)
  /\ Len(books) > 0
  /\ last.code = 404

\* C7: an accepted update of X keeps the collection's length, X's position,
\* id and insertedAt, gives X the payload's value for every other field
\* (undefined for an absent one), the recomputed finished and the clock's
\* reading as updatedAt, and leaves every other record as it was.
UpdateReplacesFields ==
  [][(last'.op = "update" /\ last'.code = 200)
       => /\ HasId(books, last'.id)
          /\ Len(books') = Len(books)
          /\ LET x == Position(books, last'.id)
                 p == last'.payload
             IN  /\ \A j \in DOMAIN books : j # x => books'[j] = books[j]
                 /\ books'[x].id = books[x].id
                 /\ books'[x].insertedAt = books[x].insertedAt
                 /\ books'[x].name = p.name
                 /\ books'[x].year = p.year
                 /\ books'[x].author = p.author
                 /\ books'[x].summary = p.summary
                 /\ books'[x].publisher = p.publisher
                 /\ books'[x].pageCount = p.pageCount
                 /\ books'[x].readPage = p.readPage
                 /\ books'[x].reading = p.reading
                 /\ books'[x].finished = Bool(p.readPage = p.pageCount)
                 /\ books'[x].updatedAt = Num(now)]_vars

\* C7 witness: an accepted update whose payload has no publisher, year,
\* author or summary, of the second of two records, later than its creation.
UpdateReplacesWitness ==
  /\ last.op = "update"
  /\ last.code = 200
  /\ last.payload.publisher = Undef
  /\ last.payload.year = Undef
  /\ Len(books) = 2
  /\ books[2].id = last.id
  /\ books[2].updatedAt # books[2].insertedAt

\* sub is a substring of cs when letter case is ignored.
CaseInsensitiveSubstring(sub, cs) ==
  \E k \in 0..(Len(cs) - Len(sub)) :
    \A j \in 1..Len(sub) : Lower(cs[k + j]) = Lower(sub[j])

\* The record satisfies every filter the query supplies.
Matches(b, q) ==
  /\ q.name # Undef =>
       b.name.t = "string" /\ CaseInsensitiveSubstring(q.name.s, b.name.s)
  /\ q.reading # Undef => b.reading = Bool(NumberTruthy(q.reading))
  /\ q.finished # Undef => b.finished = Bool(NumberTruthy(q.finished))

\* The {id, name, publisher} of the matching records, in collection order.
MatchingSummaries(bs, q) ==
  LET hits == SelectSeq(bs, LAMBDA b : Matches(b, q))
  IN  [i \in DOMAIN hits |->
         [id |-> hits[i].id, name |-> hits[i].name, publisher |-> hits[i].publisher]]

\* C8 (as claimed): list answers 200 with exactly the summaries of the
\* records that satisfy all supplied filters, in insertion order, and leaves
\* the collection as it was.
ListReturnsMatches ==
  [][last'.op = "list"
       => /\ last'.code = 200
          /\ last'.list = MatchingSummaries(books, last'.query)
          /\ books' = books]_vars

\* C8, on collections whose names are all strings: the same statement.  It
\* holds; the only departures from C8 are the failures of C9.
ListReturnsMatchesOfStringNames ==
  [][(last'.op = "list" /\ \A i \in DOMAIN books : books[i].name.t = "string")
       => /\ last'.code = 200
          /\ last'.list = MatchingSummaries(books, last'.query)
          /\ books' = books]_vars

\* C9 (as claimed): every list request is answered 200 "success".
ListNeverErrors ==
  last.op = "list" => last.code = 200 /\ last.status = "success"

----
\* The service with several requests in flight (specification SpecConc).
\* A handler is an async function: it runs statement by statement on the one
\* thread and gives the thread up only at an `await`; a suspended handler is
\* resumed at some later point, in any order with respect to the others.

\* a full payload, a sparse one, and one with readPage above pageCount
ConcPayloads ==
  { Payload(Str(<<"A", "b">>), Str(<<"x">>), Num(1), Num(1), Bool(TRUE), Num(1)),
    Payload(Str(<<"b", "a">>), Undef, Num(1), Num(0), Bool(FALSE), Undef),
    Payload(Str(<<"A", "b">>), Str(<<"x">>), Num(0), Num(1), Bool(TRUE), Num(1)) }

\* The collection SpecConc starts from: two records, created by two accepted
\* POST /books at time 0.
SeedIds == <<Str(<<"p">>), Str(<<"q">>)>>

SeedBooks ==
  LET first == CHOOSE p \in ConcPayloads : p.publisher # Undef /\ p.readPage = p.pageCount
      second == CHOOSE p \in ConcPayloads : p.publisher = Undef
      one == addBookController(<<>>, first, SeedIds[1], 0).books
  IN  addBookController(one, second, SeedIds[2], 0).books

\* Variant of AtAwait: the update handler is also suspended between its
\* lookup (line 185) and its validation and write (lines 187-220), as if the
\* payload were awaited after findIndex.
AtAwait_afterLookup(pc) == pc \in {"await17", "await182", "await183", "await254", "edit187"}

\* The statements at which a handler is suspended: its `await`s (lines 17,
\* 182, 183 and 254).  Everywhere else it keeps the thread.
AtAwait(pc) == pc \in {"await17", "await182", "await183", "await254"}

\* The local variables of one invocation: the request, the statement to run
\* next, the handler's locals, its response, and the response of the same
\* request handled in one piece at the moment it completes.
Frame(op, id, p, pc) ==
  [op |-> op, id |-> id, payload |-> p, pc |-> pc,
   at |-> Undef, index |-> -1, newId |-> Undef,
   code |-> 0, message |-> "", serialCode |-> 0, serialMessage |-> ""]

\* {...books[index]}: spreading undefined adds no property.
spread(bs, index) ==
  IF index + 1 \in DOMAIN bs
  THEN bs[index + 1]
  ELSE [id |-> Undef, name |-> Undef, year |-> Undef, author |-> Undef,
        summary |-> Undef, publisher |-> Undef, pageCount |-> Undef,
        readPage |-> Undef, finished |-> Undef, reading |-> Undef,
        insertedAt |-> Undef, updatedAt |-> Undef]

\* books[index] = record: an index past the end lengthens the array (the
\* slots in between, left empty, are shown as records without properties).
arrayWrite(bs, index, record) ==
  [i \in 1..(IF index + 1 > Len(bs) THEN index + 1 ELSE Len(bs)) |->
     IF i = index + 1 THEN record
     ELSE IF i \in DOMAIN bs THEN bs[i]
     ELSE spread(<<>>, 0)]

InitConc ==
  /\ books = SeedBooks
  /\ now = 1
  /\ assigned = {SeedIds[1], SeedIds[2]}
  /\ steps = 0
  /\ last = Idle
  /\ frames = <<>>
  /\ running = 0
  /\ serial = [books |-> SeedBooks, order |-> <<>>]

\* Handler k may run its next statement: it holds the thread, or the thread
\* is free and it is suspended.
MayRun(k) ==
  /\ k \in DOMAIN frames
  /\ frames[k].pc # "done"
  /\ running \in {0, k}

\* Handler k goes on to statement pc with its locals changed to f.
Goto(k, f, pc) ==
  /\ frames' = [frames EXCEPT ![k] = [f EXCEPT !.pc = pc]]
  /\ running' = IF AtAwait(pc) THEN 0 ELSE k
  /\ UNCHANGED serial

\* The same request handled in one piece on the serial collection.
Atomic(f) ==
  CASE f.op = "create" ->
         addBookController(serial.books, f.payload, f.newId,
                           IF f.at = Undef THEN 0 ELSE f.at.n)
    [] f.op = "update" ->
         editBookByIdController(serial.books, f.id, f.payload, f.at.n)
    [] f.op = "delete" -> deleteBookByIdController(serial.books, f.id)

\* Handler k returns its response.
Return(k, f, code, message) ==
  LET r == Atomic(f)
  IN  /\ frames' = [frames EXCEPT ![k] =
                      [f EXCEPT !.pc = "done", !.code = code, !.message = message,
                                !.serialCode = r.code, !.serialMessage = r.message]]
      /\ running' = 0
      /\ serial' = [books |-> r.books, order |-> Append(serial.order, k)]

\* A request arrives, some time after the one before: its handler is called
\* and runs up to its first `await`.
Arrive ==
  /\ running = 0
  /\ Len(frames) < MaxRequests
  /\ \E f \in {Frame("create", Undef, p, "await17") : p \in ConcPayloads}
            \cup {Frame("update", id, p, "await182") : id \in IdParams, p \in ConcPayloads}
            \cup {Frame("delete", id, NoPayload, "await254") : id \in IdParams} :
       frames' = Append(frames, f)
  /\ \E tick \in {0, 1} : now' = now + tick
  /\ UNCHANGED <<books, assigned, steps, last, running, serial>>

\* One statement of addBookController.
AddBookStep ==
  \E k \in DOMAIN frames :
    LET f == frames[k]
        p == f.payload
    IN  /\ MayRun(k)
        /\ f.op = "create"
        /\ UNCHANGED <<now, steps, last>>
        /\ CASE f.pc = "await17" ->
                  Goto(k, f, "add19") /\ UNCHANGED <<books, assigned>>
             [] f.pc = "add19" ->
                  /\ UNCHANGED <<books, assigned>>
                  /\ IF nameMissing(p.name)
                     THEN Return(k, f, 400, AddNoName)
                     ELSE IF pageCountExceeded(p.pageCount, p.readPage)
                     THEN Return(k, f, 400, AddPageCount)
                     ELSE Goto(k, f, "add37")
             [] f.pc = "add37" ->
                  \E id \in nanoid(assigned) :
                    /\ Goto(k, [f EXCEPT !.newId = id, !.at = Num(now)], "add56")
                    /\ assigned' = assigned \cup {id}
                    /\ UNCHANGED books
             [] f.pc = "add56" ->
                  /\ books' = Append(books, newBook(p, f.newId, f.at.n))
                  /\ Goto(k, f, "add58")
                  /\ UNCHANGED assigned
             [] f.pc = "add58" ->
                  /\ UNCHANGED <<books, assigned>>
                  /\ IF Len(SelectSeq(books, LAMBDA b : StrictEq(b.id, f.newId))) > 0
                     THEN Return(k, f, 201, AddSuccess)
                     ELSE Return(k, f, 500, AddFailed)

\* One statement of editBookByIdController.
EditBookStep ==
  \E k \in DOMAIN frames :
    LET f == frames[k]
        p == f.payload
    IN  /\ MayRun(k)
        /\ f.op = "update"
        /\ UNCHANGED <<now, assigned, steps, last>>
        /\ CASE f.pc = "await182" -> Goto(k, f, "await183") /\ UNCHANGED books
             [] f.pc = "await183" -> Goto(k, f, "edit184") /\ UNCHANGED books
             [] f.pc = "edit184" ->
                  Goto(k, [f EXCEPT !.at = Num(now)], "edit185") /\ UNCHANGED books
             [] f.pc = "edit185" ->
                  /\ Goto(k, [f EXCEPT !.index = findIndex(books, f.id)], "edit187")
                  /\ UNCHANGED books
             [] f.pc = "edit187" ->
                  /\ UNCHANGED books
                  /\ IF f.index = -1
                     THEN Return(k, f, 404, EditNotFound)
                     ELSE IF nameMissing(p.name)
                     THEN Return(k, f, 400, EditNoName)
                     ELSE IF pageCountExceeded(p.pageCount, p.readPage)
                     THEN Return(k, f, 400, EditPageCount)
                     ELSE Goto(k, f, "edit206")
             [] f.pc = "edit206" ->
                  /\ books' = arrayWrite(books, f.index,
                                         editedBook(spread(books, f.index), p, f.at.n))
                  /\ Goto(k, f, "edit222")
             [] f.pc = "edit222" ->
                  Return(k, f, 200, EditSuccess) /\ UNCHANGED books

\* One statement of deleteBookByIdController.
DeleteBookStep ==
  \E k \in DOMAIN frames :
    LET f == frames[k]
    IN  /\ MayRun(k)
        /\ f.op = "delete"
        /\ UNCHANGED <<now, assigned, steps, last>>
        /\ CASE f.pc = "await254" -> Goto(k, f, "delete255") /\ UNCHANGED books
             [] f.pc = "delete255" ->
                  /\ Goto(k, [f EXCEPT !.index = findIndex(books, f.id)], "delete257")
                  /\ UNCHANGED books
             [] f.pc = "delete257" ->
                  IF f.index # -1
                  THEN /\ books' = splice(books, f.index)
                       /\ Return(k, f, 200, DeleteSuccess)
                  ELSE /\ UNCHANGED books
                       /\ Return(k, f, 404, DeleteNotFound)

NextConc == Arrive \/ AddBookStep \/ EditBookStep \/ DeleteBookStep

SpecConc == InitConc /\ [][NextConc]_vars

----
\* Properties of the service with requests in flight (specification SpecConc).

\* C10: whenever the thread is free, the collection is the one that handling
\* the completed requests one at a time, in their order of completion,
\* produces, and every completed request has the response it gets in that
\* serial execution; and a handler that is about to write or remove holds
\* the index its id has in the collection at that moment.
InterleavingsAreSerial ==
  /\ running = 0 =>
       /\ books = serial.books
       /\ \A k \in DOMAIN frames :
            frames[k].pc = "done" =>
              /\ frames[k].code = frames[k].serialCode
              /\ frames[k].message = frames[k].serialMessage
  /\ \A k \in DOMAIN frames :
       frames[k].pc \in {"edit187", "edit206", "delete257"} =>
         /\ frames[k].index = -1 => ~HasId(books, frames[k].id)
         /\ frames[k].index # -1 =>
              /\ frames[k].index + 1 \in DOMAIN books
              /\ books[frames[k].index + 1].id = frames[k].id
              /\ \A j \in 1..frames[k].index : books[j].id # frames[k].id

\* C10 witness: an update of the first record arrived, then a delete of the
\* same record, which completed while the update was suspended; the update
\* then completed and was answered 404.
InterleavingsWitness ==
  /\ Len(frames) = 2
  /\ frames[1].op = "update"
  /\ frames[2].op = "delete"
  /\ frames[1].id = SeedIds[1]
  /\ frames[2].id = SeedIds[1]
  /\ serial.order = <<2, 1>>
  /\ frames[2].code = 200
  /\ frames[1].code = 404
  /\ Len(books) = 1

====
